---------------------------- MODULE Spec2Model ----------------------------
(***************************************************************************)
(* Model of Tracker.py, the Local Health Tracker: the CSV event store      *)
(* (initialize_data_file, load_data, log_entry, the admin delete rewrite),  *)
(* the form handler of main, the session and role guards, and the two      *)
(* analytics functions analyze_trends and detect_outbreaks.                *)
(*                                                                         *)
(* Text is modelled as sequences of one-character strings, so that         *)
(* Python's str operations (strip, title, lower, join, split, in) are      *)
(* computed character by character.                                        *)
(***************************************************************************)
EXTENDS Integers, Sequences, FiniteSets, TLC

(***************************************************************************)
(* Bounds of the model.                                                    *)
(***************************************************************************)
\* Rows the store may hold before submissions stop being drawn.
MaxRows == 2
\* The clock runs over the readings 0..MaxNow.
MaxNow == 2
\* Clock readings per day (a day has 86400 seconds; the model keeps the
\* distinction between "exactly midnight" and "later that day").
SecondsPerDay == 2
\* How many days back the date widget is moved by the inputs drawn.
MaxBack == 1
\* Rows of the frames handed to the analytics functions.
MaxFrame == 12
\* Rows of the frames handed to analyze_trends alone.
MaxTrendFrame == 4
\* Symptoms selected in one submission when every selection is drawn.
MaxSelected == 2
\* Lines of the files load_data is given when any file content is drawn.
MaxLines == 3

(***************************************************************************)
(* Program constants.                                                      *)
(***************************************************************************)
OUTBREAK_THRESHOLD == 10
OUTBREAK_DAYS == 7
TREND_DAYS == 7
TOP_SYMPTOMS == 3
SERIES_DAYS == 30
THRESHOLD_INPUT_MIN == 5
THRESHOLD_INPUT_MAX == 50
DAYS_INPUT_MIN == 3
DAYS_INPUT_MAX == 14
DELETE_TAIL == 50
SEVERITY_MIN == 1
SEVERITY_MAX == 10

(***************************************************************************)
(* Python str operations.                                                  *)
(***************************************************************************)
Chars(str) == [i \in 1..Len(str) |-> SubSeq(str, i, i)]

Uppers == Chars("ABCDEFGHIJKLMNOPQRSTUVWXYZ")
Lowers == Chars("abcdefghijklmnopqrstuvwxyz")

\* The lower-case letter of each upper-case one, and back.
ToLower ==
    [c \in {Uppers[i] : i \in 1..Len(Uppers)} |->
        Lowers[CHOOSE i \in 1..Len(Uppers) : Uppers[i] = c]]

ToUpper ==
    [c \in {Lowers[i] : i \in 1..Len(Lowers)} |->
        Uppers[CHOOSE i \in 1..Len(Lowers) : Lowers[i] = c]]

IsCased(c) == c \in DOMAIN ToLower \/ c \in DOMAIN ToUpper

LowerChar(c) == IF c \in DOMAIN ToLower THEN ToLower[c] ELSE c

UpperChar(c) == IF c \in DOMAIN ToUpper THEN ToUpper[c] ELSE c

IsSpace(c) == c = " "

\* str.lower()
StrLower(s) == [i \in 1..Len(s) |-> LowerChar(s[i])]

\* str.title(): a cased character is upper-cased when it follows an uncased
\* one (or starts the string) and lower-cased when it follows a cased one.
StrTitle(s) ==
    [i \in 1..Len(s) |->
        IF i > 1 /\ IsCased(s[i - 1]) THEN LowerChar(s[i]) ELSE UpperChar(s[i])]

\* str.strip()
StrStrip(s) ==
    LET Solid == {i \in 1..Len(s) : ~IsSpace(s[i])}
    IN  IF Solid = {} THEN <<>>
        ELSE SubSeq(s, CHOOSE i \in Solid : \A j \in Solid : i <= j,
                       CHOOSE i \in Solid : \A j \in Solid : j <= i)

\* needle in hay
StrContains(hay, needle) ==
    \E i \in 1..(Len(hay) - Len(needle) + 1) :
        SubSeq(hay, i, i + Len(needle) - 1) = needle

\* sep.join(parts)
RECURSIVE StrJoin(_, _)
StrJoin(sep, parts) ==
    IF parts = <<>> THEN <<>>
    ELSE IF Len(parts) = 1 THEN parts[1]
    ELSE parts[1] \o sep \o StrJoin(sep, Tail(parts))

\* s.split(c) for a one-character separator c
RECURSIVE StrSplit(_, _)
StrSplit(s, c) ==
    LET Hits == {i \in 1..Len(s) : s[i] = c}
    IN  IF Hits = {} THEN <<s>>
        ELSE LET k == CHOOSE i \in Hits : \A j \in Hits : i <= j
             IN  <<SubSeq(s, 1, k - 1)>> \o StrSplit(SubSeq(s, k + 1, Len(s)), c)

\* [x.strip() for x in str(s).split(',')]
SplitSymptoms(s) ==
    LET parts == StrSplit(s, ",")
    IN  [i \in 1..Len(parts) |-> StrStrip(parts[i])]

(***************************************************************************)
(* The widgets of the data entry form (main, "Home & Data Entry").         *)
(***************************************************************************)
AgeGroups == {"Child (0-12)", "Teen/Youth (13-24)", "Adult (25-59)", "Senior (60+)"}

Durations == {"<1 day", "1-3 days", "4-7 days", ">1 week"}

\* A multiselect that also offers a label containing another one.
SymptomOptionsOverlapping ==
    <<Chars("Fever"), Chars("Hay fever"), Chars("Cough")>>

SymptomOptions ==
    <<Chars("Fever"), Chars("Cough"), Chars("Headache"), Chars("Fatigue"),
      Chars("Sore throat"), Chars("Running nose"), Chars("Muscle pain"),
      Chars("Rash"), Chars("Stomach pain"), Chars("Nausea"), Chars("Diarrhea"),
      Chars("Loss of taste/smell"), Chars("Breathing difficulty")>>

SymptomVocabulary == {SymptomOptions[i] : i \in 1..Len(SymptomOptions)}

\* A date widget without max_value: the user may move it forward.
DateInputForward(max_value, back) == max_value + back

\* st.date_input(value=today, max_value=today): the widget returns a date
\* not later than max_value; back is how far the user moved it.
DateInput(max_value, back) == max_value - back

\* Inputs drawn for the free-text area field.
AreaInputs == {<<>>, Chars(" "), Chars(" aB"), Chars("Ab")}

\* Inputs drawn for the other widgets, taken together: the multiselect
\* (selection order is kept), the two selectboxes, the slider and how far
\* back the date is moved.
OtherInputs ==
    {[symptoms |-> <<>>, age_group |-> "Adult (25-59)", duration |-> "1-3 days",
      severity |-> 5, back |-> 0],
     [symptoms |-> <<Chars("Fever")>>, age_group |-> "Child (0-12)",
      duration |-> "<1 day", severity |-> SEVERITY_MIN, back |-> 0],
     [symptoms |-> <<Chars("Cough"), Chars("Fever")>>, age_group |-> "Senior (60+)",
      duration |-> ">1 week", severity |-> SEVERITY_MAX, back |-> MaxBack]}

(***************************************************************************)
(* The clock: now is datetime.now() read to the second.                    *)
(***************************************************************************)
DayOf(t) == t \div SecondsPerDay

Midnight(d) == d * SecondsPerDay

(***************************************************************************)
(* The CSV file.  A file is [exists, lines]; a line is the header line or  *)
(* a row of cells as to_csv writes them.  A date cell holds the day the    *)
(* text '%Y-%m-%d' names, a timestamp cell the second that the text        *)
(* '%Y-%m-%d %H:%M:%S' names.                                              *)
(***************************************************************************)
HeaderLine == [header |-> TRUE]

RowLine(cells) == [header |-> FALSE, cells |-> cells]

NoFile == [exists |-> FALSE, lines |-> <<>>]

\* The frame load_data returns when it has no rows or cannot read the file.
EmptyFrame == <<>>

\* pd.to_datetime on the date and timestamp columns: a date becomes the
\* instant of its midnight.
ParseRow(c) ==
    [date |-> Midnight(c.date), age_group |-> c.age_group, area |-> c.area,
     duration |-> c.duration, symptoms |-> c.symptoms, severity |-> c.severity,
     timestamp |-> c.timestamp]

\* DataFrame.to_csv of a loaded frame's row: a datetime column whose values
\* are all at midnight is written as dates.
FormatRow(r) ==
    [date |-> DayOf(r.date), age_group |-> r.age_group, area |-> r.area,
     duration |-> r.duration, symptoms |-> r.symptoms, severity |-> r.severity,
     timestamp |-> r.timestamp]

\* df.to_csv(DATA_FILE, index=False): header line, then one line per row.
ToCsv(frame) ==
    [exists |-> TRUE,
     lines |-> <<HeaderLine>> \o [i \in 1..Len(frame) |-> RowLine(FormatRow(frame[i]))]]

\* An initialize_data_file that writes the header file whether or not a
\* file is there.
InitializeDataFileAlways(f) == ToCsv(EmptyFrame)

\* initialize_data_file()
InitializeDataFileOp(f) == IF f.exists THEN f ELSE ToCsv(EmptyFrame)

\* load_data(): read_csv takes the first line as the header; a missing file,
\* a first line that is not the header (KeyError on df['date']) or a header
\* line among the data (to_datetime fails) all end in the except branch.
LoadData(f) ==
    IF ~f.exists \/ f.lines = <<>> THEN EmptyFrame
    ELSE LET data == Tail(f.lines)
         IN  IF data = <<>> THEN EmptyFrame
             ELSE IF ~f.lines[1].header THEN EmptyFrame
             ELSE IF \E i \in 1..Len(data) : data[i].header THEN EmptyFrame
             ELSE [i \in 1..Len(data) |-> ParseRow(data[i].cells)]

\* The column list of the store.
Columns ==
    <<"date", "age_group", "area", "duration", "symptoms", "severity", "timestamp">>

\* The try block of load_data raises: read_csv finds no file
\* (FileNotFoundError) or no line (EmptyDataError); df['date'] is not a
\* column of a non-empty frame (KeyError); to_datetime meets a header text
\* in the date column.
TryFails(f) ==
    \/ ~f.exists
    \/ f.lines = <<>>
    \/ /\ Len(f.lines) >= 2
       /\ \/ ~f.lines[1].header
          \/ \E i \in 2..Len(f.lines) : f.lines[i].header

\* The columns of the frame load_data returns: the fixed list from the
\* except branch, else what read_csv took from the first line (the cells of
\* a data row when the first line is one).
LoadColumns(f) ==
    IF TryFails(f) \/ f.lines[1].header THEN Columns
    ELSE [i \in 1..Len(Columns) |-> "cell"]

\* A load_data without the except clause.
LoadRaisesUncaught(f) == TryFails(f)

\* except: return pd.DataFrame(columns=[...]) -- nothing leaves load_data
\* as an exception.
LoadRaises(f) == FALSE

\* The row log_entry builds (new_entry).
NewEntry(date, age_group, area, duration, symptoms, severity, t) ==
    [date |-> date, age_group |-> age_group, area |-> area, duration |-> duration,
     symptoms |-> StrJoin(Chars(", "), symptoms), severity |-> severity,
     timestamp |-> t]

\* A log_entry that appends without looking whether the file exists.
LogEntryNeverHeader(f, entry) ==
    [exists |-> TRUE, lines |-> Append(f.lines, RowLine(entry))]

\* log_entry(): append without header when the file exists, else write the
\* header and the row.
LogEntry(f, entry) ==
    IF f.exists
    THEN [exists |-> TRUE, lines |-> Append(f.lines, RowLine(entry))]
    ELSE [exists |-> TRUE, lines |-> <<HeaderLine, RowLine(entry)>>]

\* A form handler that tests only the symptoms.
ValidatesSymptomsOnly(area, symptoms) == Len(symptoms) > 0

\* if area and symptoms: (main, the form handler)
Validates(area, symptoms) == Len(area) > 0 /\ Len(symptoms) > 0

\* recent_df = df.tail(50): the zero-based index labels offered for deletion.
RecentIndex(frame) ==
    {p \in 0..(Len(frame) - 1) : p >= Len(frame) - DELETE_TAIL}

\* df.drop(selected_indices): the rows whose index label is not selected.
RECURSIVE DropFrom(_, _, _)
DropFrom(frame, selected, p) ==
    IF p >= Len(frame) THEN <<>>
    ELSE (IF p \in selected THEN <<>> ELSE <<frame[p + 1]>>)
         \o DropFrom(frame, selected, p + 1)

\* A drop that takes the ticked labels as one-based.
DropRowsOneBased(frame, selected) == DropFrom(frame, {p + 1 : p \in selected}, 0)

DropRows(frame, selected) == DropFrom(frame, selected, 0)

(***************************************************************************)
(* State.                                                                  *)
(*   file      symptom_log.csv                                             *)
(*   now       the clock                                                   *)
(*   last      the last operation: its name, arguments and what it saw     *)
(*   accepted  the submissions log_entry has taken, in order, until the    *)
(*             first delete rewrite (history)                              *)
(*   sess      st.session_state of each browser session                    *)
(*   df        the frame handed to the analytics functions                 *)
(*   out       what the last analytics call returned                       *)
(*   run       where each session's run of show_admin_panel stands, the    *)
(*             frame it loaded and the widget state of its delete tab      *)
(***************************************************************************)
VARIABLES file, now, last, accepted, sess, df, out, run

vars == <<file, now, last, accepted, sess, df, out, run>>

Sessions == {"s1", "s2"}

NoSession ==
    [authentication_status |-> FALSE, username |-> "", user_role |-> ""]

NoOutput == [op |-> "none"]

\* No run of the admin panel under way, nothing ticked, only what a first
\* run renders on the page.
NoRun == [pc |-> "idle", frame |-> <<>>, ticked |-> {}, confirm_shown |-> FALSE]

NoHistory == [valid |-> TRUE, log |-> <<>>]

InitStore ==
    /\ file = NoFile
    /\ now = 0
    /\ last = [op |-> "none"]
    /\ accepted = NoHistory
    /\ sess = [s \in Sessions |-> NoSession]
    /\ df = EmptyFrame
    /\ out = NoOutput
    /\ run = [s \in Sessions |-> NoRun]

(***************************************************************************)
(* The operations of the store, called in any order.                       *)
(***************************************************************************)
\* initialize_data_file()
InitializeDataFile ==
    /\ file' = InitializeDataFileOp(file)
    /\ last' = [op |-> "initialize_data_file", before |-> file]
    /\ UNCHANGED <<now, accepted, sess, df, out, run>>

\* load_data()
LoadDataCall ==
    /\ last' = [op |-> "load_data", ret |-> LoadData(file),
                raises |-> LoadRaises(file), columns |-> LoadColumns(file),
                read |-> file]
    /\ UNCHANGED <<file, now, accepted, sess, df, out, run>>

\* The form as submitted: what the widgets return.
FormValues(area, p, t) ==
    [entry_date |-> DateInput(DayOf(t), p.back), age_group |-> p.age_group,
     area |-> area, duration |-> p.duration, symptoms |-> p.symptoms,
     severity |-> p.severity]

\* if submitted: if area and symptoms: log_entry(...) else: st.warning(...)
HandleSubmit(f, form, t) ==
    IF Validates(form.area, form.symptoms)
    THEN LogEntry(f, NewEntry(form.entry_date, form.age_group, form.area,
                              form.duration, form.symptoms, form.severity, t))
    ELSE f

Record(history, form, t, existed) ==
    IF history.valid /\ Validates(form.area, form.symptoms)
    THEN [valid |-> TRUE,
          log |-> Append(history.log, [form |-> form, at |-> t, existed |-> existed])]
    ELSE history

SubmitForm(area, p) ==
    LET form == FormValues(area, p, now)
    IN  /\ Validates(area, p.symptoms) => Len(file.lines) <= MaxRows
        /\ file' = HandleSubmit(file, form, now)
        /\ last' = [op |-> "submit", form |-> form,
                    logged |-> Validates(area, p.symptoms), before |-> LoadData(file)]
        /\ accepted' = Record(accepted, form, now, file.exists)
        /\ UNCHANGED <<now, sess, df, out, run>>

\* show_admin_panel(), the delete rewrite: df = load_data(); the ticked
\* index labels are dropped and the frame is written back.
DeleteRewrite(frame, selected) == ToCsv(DropRows(frame, selected))

AdminDelete(selected) ==
    LET frame == LoadData(file)
    IN  /\ frame # EmptyFrame
        /\ selected # {}
        /\ selected \subseteq RecentIndex(frame)
        /\ file' = DeleteRewrite(frame, selected)
        /\ last' = [op |-> "delete", frame |-> frame, selected |-> selected]
        /\ accepted' = [valid |-> FALSE, log |-> <<>>]
        /\ UNCHANGED <<now, sess, df, out, run>>

\* Time passes.
Tick ==
    /\ now < MaxNow
    /\ now' = now + 1
    /\ UNCHANGED <<file, last, accepted, sess, df, out, run>>

Next ==
    \/ InitializeDataFile
    \/ LoadDataCall
    \/ \E area \in AreaInputs, p \in OtherInputs : SubmitForm(area, p)
    \/ \E selected \in SUBSET (0..(MaxRows - 1)) : AdminDelete(selected)
    \/ Tick

Spec == InitStore /\ [][Next]_vars

(***************************************************************************)
(* The filtered views: the "View All Data" tab of the admin panel and the  *)
(* custom export of the "Data Export" page.                                *)
(***************************************************************************)
\* if selected_areas: df[df['area'].isin(selected_areas)]
FilterAreas(frame, selected_areas) ==
    IF selected_areas # {}
    THEN SelectSeq(frame, LAMBDA r : r.area \in selected_areas)
    ELSE frame

\* A date filter that leaves out the last day of the range.
FilterDatesExclusive(frame, date_range) ==
    IF Len(date_range) = 2
    THEN SelectSeq(frame, LAMBDA r : DayOf(r.date) >= date_range[1]
                                     /\ DayOf(r.date) < date_range[2])
    ELSE frame

\* if len(date_range) == 2:
\*     df[(df['date'].dt.date >= date_range[0]) & (df['date'].dt.date <= date_range[1])]
FilterDates(frame, date_range) ==
    IF Len(date_range) = 2
    THEN SelectSeq(frame, LAMBDA r : DayOf(r.date) >= date_range[1]
                                     /\ DayOf(r.date) <= date_range[2])
    ELSE frame

\* if selected_age_groups: df[df['age_group'].isin(selected_age_groups)]
FilterAgeGroups(frame, selected_age_groups) ==
    IF selected_age_groups # {}
    THEN SelectSeq(frame, LAMBDA r : r.age_group \in selected_age_groups)
    ELSE frame

\* filtered_df of show_admin_panel
AdminFilter(frame, selected_areas, date_range, selected_age_groups) ==
    FilterAgeGroups(FilterDates(FilterAreas(frame, selected_areas), date_range),
                    selected_age_groups)

\* export_df of main
ExportFilter(frame, export_areas, export_date_range) ==
    FilterDates(FilterAreas(frame, export_areas), export_date_range)

\* What the date_input of a range returns between df['date'].min() and
\* df['date'].max(): the first day alone while the range is being picked,
\* else the two ends.
DateRangeInputs(frame) ==
    LET days == {DayOf(frame[i].date) : i \in 1..Len(frame)}
        span == {d \in (0 - MaxBack)..0 :
                    (\E a \in days : a <= d) /\ (\E b \in days : d <= b)}
    IN  {<<a>> : a \in span} \cup {pair \in span \X span : pair[1] <= pair[2]}

\* Inputs drawn for the filter widgets.
AreaSelections == {{}, {Chars("Ab")}, {Chars("Ab"), Chars(" aB")}}

AgeGroupSelections ==
    {{}, {"Child (0-12)"}, {"Child (0-12)", "Senior (60+)"}}

DateRanges ==
    {<<a>> : a \in (0 - MaxBack)..0} \cup
    {pair \in ((0 - MaxBack)..0) \X ((0 - MaxBack)..0) : pair[1] <= pair[2]}

\* A run of the admin panel's first tab with the three filter widgets set.
AdminFilterRun(selected_areas, date_range, selected_age_groups) ==
    LET frame == LoadData(file)
    IN  /\ frame # EmptyFrame
        /\ selected_areas \subseteq {frame[i].area : i \in 1..Len(frame)}
        /\ date_range \in DateRangeInputs(frame)
        /\ selected_age_groups \subseteq {frame[i].age_group : i \in 1..Len(frame)}
        /\ last' = [op |-> "filter", page |-> "Admin Panel", frame |-> frame,
                    areas |-> selected_areas, date_range |-> date_range,
                    age_groups |-> selected_age_groups,
                    ret |-> AdminFilter(frame, selected_areas, date_range,
                                        selected_age_groups)]
        /\ UNCHANGED <<file, now, accepted, sess, df, out, run>>

\* A run of the export page with its two filter widgets set.
ExportFilterRun(export_areas, export_date_range) ==
    LET frame == LoadData(file)
    IN  /\ frame # EmptyFrame
        /\ export_areas \subseteq {frame[i].area : i \in 1..Len(frame)}
        /\ export_date_range \in DateRangeInputs(frame)
        /\ last' = [op |-> "filter", page |-> "Data Export", frame |-> frame,
                    areas |-> export_areas, date_range |-> export_date_range,
                    age_groups |-> {},
                    ret |-> ExportFilter(frame, export_areas, export_date_range)]
        /\ UNCHANGED <<file, now, accepted, sess, df, out, run>>

NextViews ==
    \/ \E area \in AreaInputs, p \in OtherInputs : SubmitForm(area, p)
    \/ \E selected_areas \in AreaSelections, date_range \in DateRanges,
          selected_age_groups \in AgeGroupSelections :
          AdminFilterRun(selected_areas, date_range, selected_age_groups)
    \/ \E export_areas \in AreaSelections, export_date_range \in DateRanges :
          ExportFilterRun(export_areas, export_date_range)

SpecViews == InitStore /\ [][NextViews]_vars

(***************************************************************************)
(* Writes that stop part-way.  to_csv opens DATA_FILE itself (mode 'w'     *)
(* empties it at once, mode 'a' keeps it), writes line after line and      *)
(* closes; an OSError or the end of the process in between leaves what was *)
(* written so far.  Whole lines only.                                      *)
(***************************************************************************)
\* What an interrupted to_csv leaves: in mode 'w' the first k lines of the
\* target, in mode 'a' the old lines and the first k new ones.
WrittenSoFar(f, target, k) ==
    IF f.exists
    THEN [exists |-> TRUE, lines |-> SubSeq(target.lines, 1, Len(f.lines) + k)]
    ELSE [exists |-> TRUE, lines |-> SubSeq(target.lines, 1, k)]

RewrittenSoFar(target, k) == [exists |-> TRUE, lines |-> SubSeq(target.lines, 1, k)]

\* log_entry, stopped after k of the lines it writes.
SubmitInterrupted(area, p, k) ==
    LET form == FormValues(area, p, now)
        target == HandleSubmit(file, form, now)
    IN  /\ Validates(area, p.symptoms)
        /\ Len(file.lines) <= MaxRows
        /\ k < Len(target.lines) - Len(file.lines)
        /\ file' = WrittenSoFar(file, target, k)
        /\ last' = [op |-> "submit_interrupted", before |-> file, target |-> target]
        /\ accepted' = [valid |-> FALSE, log |-> <<>>]
        /\ UNCHANGED <<now, sess, df, out, run>>

\* The delete rewrite, stopped after k of the lines it writes.
DeleteInterrupted(selected, k) ==
    LET frame == LoadData(file)
        target == DeleteRewrite(frame, selected)
    IN  /\ frame # EmptyFrame
        /\ selected # {}
        /\ selected \subseteq RecentIndex(frame)
        /\ k < Len(target.lines)
        /\ file' = RewrittenSoFar(target, k)
        /\ last' = [op |-> "delete_interrupted", before |-> file, target |-> target]
        /\ accepted' = [valid |-> FALSE, log |-> <<>>]
        /\ UNCHANGED <<now, sess, df, out, run>>

NextWrites ==
    \/ Next
    \/ \E area \in AreaInputs, p \in OtherInputs, k \in 0..1 :
          SubmitInterrupted(area, p, k)
    \/ \E selected \in SUBSET (0..(MaxRows - 1)), k \in 0..MaxRows :
          DeleteInterrupted(selected, k)

SpecWrites == InitStore /\ [][NextWrites]_vars

(***************************************************************************)
(* load_data and initialize_data_file on any file: symptom_log.csv as      *)
(* something else than the program may have left it.                       *)
(***************************************************************************)
\* The lines the files are made of.
LineInputs ==
    {HeaderLine,
     RowLine(NewEntry(0, "Child (0-12)", Chars("Ab"), "<1 day", <<Chars("Fever")>>,
                      SEVERITY_MIN, 0)),
     RowLine(NewEntry(0, "Senior (60+)", Chars("Cd"), ">1 week",
                      <<Chars("Cough"), Chars("Fever")>>, SEVERITY_MAX, 1))}

FileInputs ==
    {NoFile} \cup
    {[exists |-> TRUE, lines |-> ls] :
        ls \in UNION {[1..n -> LineInputs] : n \in 0..MaxLines}}

InitFiles ==
    /\ file \in FileInputs
    /\ now = 0
    /\ last = [op |-> "none"]
    /\ accepted = [valid |-> FALSE, log |-> <<>>]
    /\ sess = [s \in Sessions |-> NoSession]
    /\ df = EmptyFrame
    /\ out = NoOutput
    /\ run = [s \in Sessions |-> NoRun]

NextFiles ==
    \/ InitializeDataFile
    \/ LoadDataCall

SpecFiles == InitFiles /\ [][NextFiles]_vars

(***************************************************************************)
(* Sessions: check_authentication and the script runs of main.  A run is   *)
(* one step; the values the two delete buttons return are inputs of the    *)
(* run.                                                                    *)
(***************************************************************************)
\* credentials.yaml: the role key of each user.  The file is written with
\* user1 and admin1 only when it is missing; a file already there may hold
\* a user without a role key (guest1, "").
Credentials == [user1 |-> "user", admin1 |-> "admin", guest1 |-> ""]

Usernames == DOMAIN Credentials

\* A role lookup that makes a user without a role key an administrator.
UserRoleDefaultAdmin(username) ==
    IF Credentials[username] = "" THEN "admin" ELSE Credentials[username]

\* config['credentials']['usernames'][username].get('role', 'user')
UserRole(username) ==
    IF Credentials[username] = "" THEN "user" ELSE Credentials[username]

Pages == {"Home & Data Entry", "Health Dashboard", "Outbreak Alerts",
          "Health Education", "Data Export"}

AdminPage == "Admin Panel"

\* navigation_options: the selectbox offers the admin panel to admins only.
NavigationOptions(user_role) ==
    Pages \cup (IF user_role = "admin" THEN {AdminPage} ELSE {})

\* elif page == "Admin Panel" and user_role == 'admin':
ShowsAdminPanel(page, user_role) == page = AdminPage /\ user_role = "admin"

\* Inputs drawn for the area field in the session runs.
SessionAreaInputs == {<<>>, Chars("Ab")}

\* A run that starts unauthenticated and whose login succeeds: the session
\* state is set, then the run goes on to initialize_data_file and shows the
\* first page.
Login(s, username) ==
    /\ ~sess[s].authentication_status
    /\ sess' = [sess EXCEPT ![s] = [authentication_status |-> TRUE,
                                    username |-> username,
                                    user_role |-> UserRole(username)]]
    /\ file' = InitializeDataFileOp(file)
    /\ last' = [op |-> "login", sess |-> s]
    /\ UNCHANGED <<now, accepted, df, out, run>>

\* A run that starts unauthenticated and whose login is refused or not yet
\* filled in: main returns.
LoginRefused(s) ==
    /\ ~sess[s].authentication_status
    /\ last' = [op |-> "login_refused", sess |-> s]
    /\ UNCHANGED <<file, now, accepted, sess, df, out, run>>

\* A run in which the logout button is clicked: the authenticator clears
\* the status and the username; the user_role key stays in the session.
Logout(s) ==
    /\ sess[s].authentication_status
    /\ sess' = [sess EXCEPT ![s] = [authentication_status |-> FALSE,
                                    username |-> "",
                                    user_role |-> sess[s].user_role]]
    /\ file' = InitializeDataFileOp(file)
    /\ last' = [op |-> "logout", sess |-> s]
    /\ UNCHANGED <<now, accepted, df, out, run>>

\* A run that shows a page and writes nothing but the header file.
ViewPage(s, page) ==
    /\ sess[s].authentication_status
    /\ page \in NavigationOptions(sess[s].user_role)
    /\ file' = InitializeDataFileOp(file)
    /\ last' = [op |-> "view", sess |-> s]
    /\ UNCHANGED <<now, accepted, sess, df, out, run>>

\* A run of the home page in which the form is submitted.
SubmitRun(s, area, p) ==
    LET form == FormValues(area, p, now)
        ready == InitializeDataFileOp(file)
    IN  /\ sess[s].authentication_status
        /\ "Home & Data Entry" \in NavigationOptions(sess[s].user_role)
        /\ Validates(area, p.symptoms) => Len(ready.lines) <= MaxRows
        /\ file' = HandleSubmit(ready, form, now)
        /\ last' = [op |-> "submit", sess |-> s]
        /\ UNCHANGED <<now, accepted, sess, df, out, run>>

\* A run of the admin panel: records are ticked and the two buttons return
\* delete_clicked and confirm_clicked.
AdminPanelRun(s, selected, delete_clicked, confirm_clicked) ==
    LET ready == InitializeDataFileOp(file)
        frame == LoadData(ready)
    IN  /\ sess[s].authentication_status
        /\ AdminPage \in NavigationOptions(sess[s].user_role)
        /\ ShowsAdminPanel(AdminPage, sess[s].user_role)
        /\ frame # EmptyFrame
        /\ selected \subseteq RecentIndex(frame)
        /\ IF selected # {} /\ delete_clicked /\ confirm_clicked
           THEN /\ file' = DeleteRewrite(frame, selected)
                /\ last' = [op |-> "delete", sess |-> s, frame |-> frame,
                            selected |-> selected]
           ELSE /\ file' = ready
                /\ last' = [op |-> "view", sess |-> s]
        /\ UNCHANGED <<now, accepted, sess, df, out, run>>

NextApp ==
    \/ \E s \in Sessions, username \in Usernames : Login(s, username)
    \/ \E s \in Sessions : LoginRefused(s)
    \/ \E s \in Sessions : Logout(s)
    \/ \E s \in Sessions, page \in Pages \cup {AdminPage} : ViewPage(s, page)
    \/ \E s \in Sessions, area \in SessionAreaInputs, p \in OtherInputs :
          SubmitRun(s, area, p)
    \/ \E s \in Sessions, selected \in SUBSET (0..(MaxRows - 1)),
          delete_clicked \in BOOLEAN, confirm_clicked \in BOOLEAN :
          AdminPanelRun(s, selected, delete_clicked, confirm_clicked)
    \/ Tick

SpecApp == InitStore /\ [][NextApp]_vars

(***************************************************************************)
(* The admin panel's run in two steps, so that a run of another session    *)
(* may come between df = load_data() at its start and the to_csv of the    *)
(* delete.  The scripts of different sessions run in different threads.    *)
(* The values the two buttons return are inputs, as above.                 *)
(***************************************************************************)
\* A delete that loads the file again before it drops the rows.
RewriteSourceReloaded(snapshot, f) == LoadData(f)

\* df_updated = df.drop(selected_indices): df is the frame the run loaded
\* when it started.
RewriteSource(snapshot, f) == snapshot

\* show_admin_panel up to df = load_data() and the widgets.
AdminLoadStep(s) ==
    LET ready == InitializeDataFileOp(file)
    IN  /\ sess[s].authentication_status
        /\ ShowsAdminPanel(AdminPage, sess[s].user_role)
        /\ run[s].pc = "idle"
        /\ LoadData(ready) # EmptyFrame
        /\ file' = ready
        /\ run' = [run EXCEPT ![s] = [pc |-> "loaded", frame |-> LoadData(ready),
                                      ticked |-> {}, confirm_shown |-> FALSE]]
        /\ last' = [op |-> "admin_load", sess |-> s]
        /\ UNCHANGED <<now, accepted, sess, df, out>>

\* The rest of the run when records are ticked and both buttons return
\* True: the rewrite.
AdminRewriteStep(s, selected) ==
    /\ run[s].pc = "loaded"
    /\ selected # {}
    /\ selected \subseteq RecentIndex(run[s].frame)
    /\ file' = DeleteRewrite(RewriteSource(run[s].frame, file), selected)
    /\ run' = [run EXCEPT ![s] = NoRun]
    /\ last' = [op |-> "delete", sess |-> s, frame |-> run[s].frame,
                selected |-> selected, before |-> LoadData(file)]
    /\ UNCHANGED <<now, accepted, sess, df, out>>

\* The rest of the run otherwise: nothing is written.
AdminRunEnds(s) ==
    /\ run[s].pc = "loaded"
    /\ run' = [run EXCEPT ![s] = NoRun]
    /\ last' = [op |-> "view", sess |-> s]
    /\ UNCHANGED <<file, now, accepted, sess, df, out>>

\* A submission by a session whose script is not in the admin panel.
RaceSubmit(s, area, p) ==
    /\ run[s].pc = "idle"
    /\ SubmitRun(s, area, p)

NextRace ==
    \/ \E s \in Sessions, username \in Usernames : Login(s, username)
    \/ \E s \in Sessions, area \in SessionAreaInputs, p \in OtherInputs :
          RaceSubmit(s, area, p)
    \/ \E s \in Sessions : AdminLoadStep(s)
    \/ \E s \in Sessions, selected \in SUBSET (0..(MaxRows - 1)) :
          AdminRewriteStep(s, selected)
    \/ \E s \in Sessions : AdminRunEnds(s)

SpecRace == InitStore /\ [][NextRace]_vars

(***************************************************************************)
(* The delete tab under Streamlit's reruns: every widget event starts one  *)
(* run of the script; a checkbox keeps its state under its key, a button   *)
(* returns True only in the run its own click started, and a widget can be *)
(* clicked only if the last run rendered it.                               *)
(***************************************************************************)
\* st.button(label) in a run started by the event clicked.
ButtonReads(clicked, label) == clicked = label

\* The delete tab in one run: the ticked checkboxes of the rows shown, then
\* if selected_indices: / if st.button(Delete): / if st.button(CONFIRM):.
\* The inner button is reached, and so rendered, only where the outer one
\* returned True.
DeleteTabRun(frame, ticked, clicked) ==
    LET selected_indices == ticked \cap RecentIndex(frame)
        delete_pressed == selected_indices # {} /\ ButtonReads(clicked, "delete")
        confirm_pressed == delete_pressed /\ ButtonReads(clicked, "confirm")
    IN  [selected |-> selected_indices, confirm_shown |-> delete_pressed,
         rewrite |-> confirm_pressed]

\* One run of the admin panel of session s, started by the event clicked
\* with the checkboxes as ticked.
AdminRerun(s, ticked, clicked) ==
    LET ready == InitializeDataFileOp(file)
        frame == LoadData(ready)
        tab == DeleteTabRun(frame, ticked, clicked)
    IN  /\ sess[s].authentication_status
        /\ ShowsAdminPanel(AdminPage, sess[s].user_role)
        /\ frame # EmptyFrame
        /\ file' = IF tab.rewrite THEN DeleteRewrite(frame, tab.selected) ELSE ready
        /\ run' = [run EXCEPT ![s] = [pc |-> "idle", frame |-> frame,
                                      ticked |-> tab.selected,
                                      confirm_shown |-> tab.confirm_shown]]
        /\ last' = [op |-> clicked, sess |-> s, frame |-> frame,
                    selected |-> tab.selected, rewrite |-> tab.rewrite]
        /\ UNCHANGED <<now, accepted, sess, df, out>>

\* The admin ticks the checkbox of row p.
TickRecord(s, p) ==
    /\ p \notin run[s].ticked
    /\ AdminRerun(s, run[s].ticked \cup {p}, "tick")

\* The admin presses "Delete Selected Records", which the last run rendered
\* because records were ticked.
ClickDelete(s) ==
    /\ run[s].ticked # {}
    /\ AdminRerun(s, run[s].ticked, "delete")

\* The admin presses "CONFIRM DELETE", which the last run rendered.
ClickConfirm(s) ==
    /\ run[s].confirm_shown
    /\ AdminRerun(s, run[s].ticked, "confirm")

NextRerun ==
    \/ \E s \in Sessions, username \in Usernames : Login(s, username)
    \/ \E s \in Sessions, area \in SessionAreaInputs, p \in OtherInputs :
          SubmitRun(s, area, p)
    \/ \E s \in Sessions, p \in 0..(MaxRows - 1) : TickRecord(s, p)
    \/ \E s \in Sessions : ClickDelete(s)
    \/ \E s \in Sessions : ClickConfirm(s)

SpecRerun == InitStore /\ [][NextRerun]_vars

(***************************************************************************)
(* The analytics functions, applied to a frame df at the instant now.      *)
(***************************************************************************)
\* A window filter that keeps every row.
InWindowAlways(date, t, days) == TRUE

\* df['date'] >= datetime.now() - timedelta(days=days)
InWindow(date, t, days) == date >= t - days * SecondsPerDay

\* A slice that keeps the whole frame.
RecentDataUnfiltered(frame, t, days) == frame

\* df[df['date'] >= datetime.now() - timedelta(days=days)]
RecentData(frame, t, days) ==
    SelectSeq(frame, LAMBDA r : InWindow(r.date, t, days))

\* symptom.lower() in str(row['symptoms']).lower()
MentionsSymptom(r, symptom) ==
    StrContains(StrLower(r.symptoms), StrLower(symptom))

FeverText == Chars("fever")

\* 'fever' in str(row['symptoms']).lower()
MentionsFever(r) == StrContains(StrLower(r.symptoms), FeverText)

\* The positions of the rows of frame that mention fever.
FeverRows(frame) == {i \in 1..Len(frame) : MentionsFever(frame[i])}

\* all_symptoms: the labels of the rows of frame, row by row.
RECURSIVE AllSymptoms(_)
AllSymptoms(frame) ==
    IF frame = <<>> THEN <<>>
    ELSE SplitSymptoms(frame[1].symptoms) \o AllSymptoms(Tail(frame))

\* The counts of pd.Series(values).value_counts(), as label -> count.
ValueCounts(values) ==
    [v \in {values[i] : i \in 1..Len(values)} |->
        Cardinality({i \in 1..Len(values) : values[i] = v})]

\* The orders in which symptom_counts.head(3) may list the labels: by count,
\* descending; the order among equal counts is the sort's.
TopSymptomChoices(counts) ==
    LET labels == DOMAIN counts
        k == IF Cardinality(labels) < TOP_SYMPTOMS
             THEN Cardinality(labels) ELSE TOP_SYMPTOMS
    IN  {top \in [1..k -> labels] :
            /\ \A i, j \in 1..k : i < j =>
                  (top[i] # top[j] /\ counts[top[i]] >= counts[top[j]])
            /\ \A m \in labels : (\A i \in 1..k : top[i] # m) =>
                  \A i \in 1..k : counts[top[i]] >= counts[m]}

\* A daily series listed from today backwards.
DailyCountsNewestFirst(frame, t, symptom) ==
    [n \in 1..SERIES_DAYS |->
        Cardinality({i \in 1..Len(frame) :
            /\ DayOf(frame[i].date) = DayOf(t - (n - 1) * SecondsPerDay)
            /\ MentionsSymptom(frame[i], symptom)})]

\* daily_counts of one symptom: for i in range(30), the rows of the whole
\* frame dated today - (29 - i) that mention the symptom.
DailyCounts(frame, t, symptom) ==
    [n \in 1..SERIES_DAYS |->
        Cardinality({i \in 1..Len(frame) :
            /\ DayOf(frame[i].date) = DayOf(t - (SERIES_DAYS - n) * SecondsPerDay)
            /\ MentionsSymptom(frame[i], symptom)})]

EmptyTrends ==
    [op |-> "analyze_trends", symptom_counts |-> <<>>, age_distribution |-> <<>>,
     top_symptoms |-> <<>>, daily_trends |-> <<>>]

\* analyze_trends(df), with top the order head(3) lists the labels in.
AnalyzeTrends(frame, t, top) ==
    IF frame = EmptyFrame THEN EmptyTrends
    ELSE LET recent_data == RecentData(frame, t, TREND_DAYS)
         IN  [op |-> "analyze_trends",
              symptom_counts |-> ValueCounts(AllSymptoms(recent_data)),
              age_distribution |->
                  ValueCounts([i \in 1..Len(recent_data) |-> recent_data[i].age_group]),
              top_symptoms |-> top,
              daily_trends |->
                  [sym \in {top[i] : i \in 1..Len(top)} |-> DailyCounts(frame, t, sym)]]

\* recent_data['area'].unique(): the areas in order of first appearance.
RECURSIVE UniqueAreas(_, _)
UniqueAreas(frame, seen) ==
    IF frame = <<>> THEN <<>>
    ELSE IF frame[1].area \in seen THEN UniqueAreas(Tail(frame), seen)
    ELSE <<frame[1].area>> \o UniqueAreas(Tail(frame), seen \cup {frame[1].area})

\* A threshold test that wants more cases than the threshold.
ThresholdExceeded(fever_cases) == fever_cases > OUTBREAK_THRESHOLD

\* if fever_cases >= OUTBREAK_THRESHOLD:
ThresholdReached(fever_cases) == fever_cases >= OUTBREAK_THRESHOLD

\* The loop body of detect_outbreaks for one area.
AreaOutbreak(recent_data, area) ==
    LET fever_cases ==
            Cardinality({i \in 1..Len(recent_data) :
                recent_data[i].area = area /\ MentionsFever(recent_data[i])})
    IN  IF ThresholdReached(fever_cases)
        THEN <<[area |-> area, cases |-> fever_cases, symptom |-> "Fever",
                days |-> OUTBREAK_DAYS]>>
        ELSE <<>>

RECURSIVE OutbreaksOf(_, _)
OutbreaksOf(recent_data, areas) ==
    IF areas = <<>> THEN <<>>
    ELSE AreaOutbreak(recent_data, areas[1]) \o OutbreaksOf(recent_data, Tail(areas))

\* detect_outbreaks(df)
DetectOutbreaks(frame, t) ==
    IF frame = EmptyFrame THEN <<>>
    ELSE LET recent_data == RecentData(frame, t, OUTBREAK_DAYS)
         IN  OutbreaksOf(recent_data, UniqueAreas(recent_data, {}))

\* The rows the frames are drawn from, as load_data returns them: day 0 is
\* today, day -7 is on the edge of the window, day -8 is outside.
FrameRow(day, area, symptoms, age_group) ==
    ParseRow(NewEntry(day, age_group, area, "1-3 days", symptoms, 5, Midnight(day)))

FrameRows ==
    <<FrameRow(0, Chars("Ab"), <<Chars("Fever")>>, "Child (0-12)"),
      FrameRow(0, Chars("Ab"), <<Chars("Cough")>>, "Senior (60+)"),
      FrameRow(0 - 8, Chars("Ab"), <<Chars("Fever")>>, "Adult (25-59)"),
      FrameRow(0 - 7, Chars("Cd"), <<Chars("Cough"), Chars("Fever")>>, "Child (0-12)"),
      FrameRow(0 - 5, Chars("Cd"), <<Chars("Fever")>>, "Senior (60+)")>>

\* Inputs drawn for the two number inputs of the alerts page.
ThresholdInputs == {THRESHOLD_INPUT_MIN, OUTBREAK_THRESHOLD, OUTBREAK_THRESHOLD + 1}

DaysInputs == {DAYS_INPUT_MIN, OUTBREAK_DAYS}

\* The frame is drawn before the call: rows are added in the order of
\* FrameRows while nothing has been computed.
GrowFrame(k) ==
    /\ out = NoOutput
    /\ Len(df) < MaxFrame
    /\ IF df = <<>> THEN TRUE ELSE \E j \in 1..k : df[Len(df)] = FrameRows[j]
    /\ df' = Append(df, FrameRows[k])
    /\ UNCHANGED <<file, now, last, accepted, sess, out, run>>

RunAnalyzeTrends ==
    /\ out = NoOutput
    /\ \E top \in TopSymptomChoices(
                     ValueCounts(AllSymptoms(RecentData(df, now, TREND_DAYS)))) :
          out' = AnalyzeTrends(df, now, IF df = EmptyFrame THEN <<>> ELSE top)
    /\ UNCHANGED <<file, now, last, accepted, sess, df, run>>

RunDetectOutbreaks ==
    /\ out = NoOutput
    /\ out' = [op |-> "detect_outbreaks", ret |-> DetectOutbreaks(df, now)]
    /\ UNCHANGED <<file, now, last, accepted, sess, df, run>>

\* The "Outbreak Alerts" page of main: the two number inputs are read, then
\* detect_outbreaks(df) decides which banners are shown; each banner prints
\* "cases >= threshold" with the threshold read.  Without banners the page
\* shows the fever cases of the last days_back days.
AlertsPage(threshold, days_back) ==
    /\ out = NoOutput
    /\ threshold \in THRESHOLD_INPUT_MIN..THRESHOLD_INPUT_MAX
    /\ days_back \in DAYS_INPUT_MIN..DAYS_INPUT_MAX
    /\ out' = [op |-> "alerts_page", threshold |-> threshold, days_back |-> days_back,
               outbreaks |-> DetectOutbreaks(df, now),
               fever_cases |->
                   Cardinality(FeverRows(RecentData(df, now, days_back)))]
    /\ UNCHANGED <<file, now, last, accepted, sess, df, run>>

InitAnalytics ==
    /\ file = NoFile
    /\ now \in {0, 1}
    /\ last = [op |-> "none"]
    /\ accepted = NoHistory
    /\ sess = [s \in Sessions |-> NoSession]
    /\ df = EmptyFrame
    /\ out = NoOutput
    /\ run = [s \in Sessions |-> NoRun]

NextAnalytics ==
    \/ \E k \in 1..Len(FrameRows) : GrowFrame(k)
    \/ RunAnalyzeTrends
    \/ RunDetectOutbreaks
    \/ \E threshold \in ThresholdInputs, days_back \in DaysInputs :
          AlertsPage(threshold, days_back)

SpecAnalytics == InitAnalytics /\ [][NextAnalytics]_vars

(***************************************************************************)
(* analyze_trends on short frames with more symptoms: four labels in the   *)
(* window, rows on the first day of the 30-day series and the day before.  *)
(***************************************************************************)
TrendRows ==
    <<FrameRow(0, Chars("Ab"), <<Chars("Fever")>>, "Child (0-12)"),
      FrameRow(0, Chars("Ab"), <<Chars("Cough"), Chars("Headache"), Chars("Rash")>>,
               "Senior (60+)"),
      FrameRow(0 - 8, Chars("Ab"), <<Chars("Fever"), Chars("Nausea")>>, "Adult (25-59)"),
      FrameRow(0 - (SERIES_DAYS - 1), Chars("Cd"), <<Chars("Cough")>>, "Child (0-12)"),
      FrameRow(0 - SERIES_DAYS, Chars("Cd"), <<Chars("Fever")>>, "Senior (60+)")>>

GrowTrendFrame(k) ==
    /\ out = NoOutput
    /\ Len(df) < MaxTrendFrame
    /\ IF df = <<>> THEN TRUE ELSE \E j \in 1..k : df[Len(df)] = TrendRows[j]
    /\ df' = Append(df, TrendRows[k])
    /\ UNCHANGED <<file, now, last, accepted, sess, out, run>>

NextTrends ==
    \/ \E k \in 1..Len(TrendRows) : GrowTrendFrame(k)
    \/ RunAnalyzeTrends

SpecTrends == InitAnalytics /\ [][NextTrends]_vars

(***************************************************************************)
(* The substring tests on a record as log_entry stores it, for every       *)
(* selection the multiselect can return.                                   *)
(***************************************************************************)
\* What st.multiselect returns: labels of the options, each once, in the
\* order they were selected.
SymptomSelections ==
    {sel \in UNION {[1..n -> SymptomVocabulary] : n \in 1..MaxSelected} :
        \A i, j \in 1..Len(sel) : i # j => sel[i] # sel[j]}

\* The store holds one record, submitted today with the symptoms symptoms.
SelectSymptoms(symptoms) ==
    /\ out = NoOutput
    /\ df = EmptyFrame
    /\ df' = <<FrameRow(0, Chars("Ab"), symptoms, "Adult (25-59)")>>
    /\ UNCHANGED <<file, now, last, accepted, sess, out, run>>

NextSymptoms ==
    \/ \E symptoms \in SymptomSelections : SelectSymptoms(symptoms)
    \/ RunDetectOutbreaks
    \/ \E threshold \in ThresholdInputs, days_back \in DaysInputs :
          AlertsPage(threshold, days_back)

SpecSymptoms == InitAnalytics /\ [][NextSymptoms]_vars

(***************************************************************************)
(* Properties of the store.                                                *)
(***************************************************************************)
\* The data rows of the file as written, header aside.
StoredCells ==
    IF file.exists /\ file.lines # <<>>
    THEN [i \in 1..(Len(file.lines) - 1) |-> file.lines[i + 1]]
    ELSE <<>>

\* What a loaded row says the submitter entered.
Decode(r) ==
    [entry_date |-> DayOf(r.date), age_group |-> r.age_group, area |-> r.area,
     duration |-> r.duration, symptoms |-> SplitSymptoms(r.symptoms),
     severity |-> r.severity]

\* frame holds exactly the submissions of log, one row each, in order.
HoldsExactly(frame, log) ==
    /\ Len(frame) = Len(log)
    /\ \A i \in 1..Len(log) :
          /\ Decode(frame[i]) = log[i].form
          /\ frame[i].date = Midnight(log[i].form.entry_date)
          /\ frame[i].timestamp = log[i].at

\* C1 (append monotonicity): as long as no delete rewrite has run, starting
\* from a missing or header-only file, load_data returns exactly the
\* submissions log_entry took, one row each, in submission order; the first
\* record is not consumed as a header row.
C1_AppendMonotonicity ==
    accepted.valid =>
        /\ HoldsExactly(LoadData(file), accepted.log)
        /\ last.op = "load_data" => HoldsExactly(last.ret, accepted.log)

\* Two submissions were taken, the first one by a log_entry that found no
\* file, and load_data has returned both.
C1_Witness ==
    /\ accepted.valid
    /\ Len(accepted.log) = 2
    /\ ~accepted.log[1].existed
    /\ last.op = "load_data"
    /\ Len(last.ret) = 2

\* C3 (rejected submissions change nothing): a submission with an empty
\* area or with no symptom selected does not call log_entry, and load_data
\* returns what it returned before the submission.
C3_RejectedChangesNothing ==
    (last.op = "submit" /\ (last.form.area = <<>> \/ last.form.symptoms = <<>>)) =>
        /\ ~last.logged
        /\ LoadData(file) = last.before

\* A submission with an empty area and a selected symptom was made on a
\* store that holds a record.
C3_Witness ==
    /\ last.op = "submit"
    /\ last.form.area = <<>>
    /\ last.form.symptoms # <<>>
    /\ Len(last.before) >= 1

\* C4 (the validator): a submission is taken if and only if its area is
\* non-empty after trimming and a symptom is selected; a whitespace-only
\* area is rejected and no record is appended.
C4_AcceptsIffTrimmedArea ==
    last.op = "submit" =>
        /\ last.logged <=>
              (StrStrip(last.form.area) # <<>> /\ last.form.symptoms # <<>>)
        /\ StrStrip(last.form.area) = <<>> => LoadData(file) = last.before

\* The validator's acceptance as specified: the area is non-empty after
\* trimming and a symptom is selected.
ValidAsSpecified(form) == StrStrip(form.area) # <<>> /\ form.symptoms # <<>>

\* C5 (round trip with normalization): after N valid submissions load_data
\* returns N records, each with the trimmed, title-cased area and the
\* comma-joined symptoms (in selection order) of its submission; so two
\* submissions whose areas differ only in case or surrounding whitespace are
\* stored under the same area.
C5_RoundTripNormalized ==
    (accepted.valid /\ \A i \in 1..Len(accepted.log) : ValidAsSpecified(accepted.log[i].form)) =>
        LET frame == LoadData(file)
        IN  /\ Len(frame) = Len(accepted.log)
            /\ \A i \in 1..Len(accepted.log) :
                  /\ frame[i].area = StrTitle(StrStrip(accepted.log[i].form.area))
                  /\ SplitSymptoms(frame[i].symptoms) = accepted.log[i].form.symptoms
            /\ \A i, j \in 1..Len(accepted.log) :
                  StrTitle(StrStrip(accepted.log[i].form.area))
                        = StrTitle(StrStrip(accepted.log[j].form.area))
                     => frame[i].area = frame[j].area

\* The rows of frame that the positions in selected do not name, in order.
Remaining(frame, selected) ==
    LET keep == {p \in 0..(Len(frame) - 1) : p \notin selected}
    IN  [j \in 1..Cardinality(keep) |->
            frame[1 + CHOOSE p \in keep : Cardinality({q \in keep : q < p}) = j - 1]]

\* C8 (delete by positions): after the delete rewrite ran with the positions
\* selected, taken from the load_data order of the store, the store holds
\* exactly the records at the other positions, in their order and unchanged;
\* load_data returns len(before) - |selected| rows, and deleting every
\* record leaves a header-only file that loads as empty.
C8_DeleteByPositions ==
    last.op = "delete" =>
        /\ LoadData(file) = Remaining(last.frame, last.selected)
        /\ Len(LoadData(file)) = Len(last.frame) - Cardinality(last.selected)
        /\ file.exists /\ file.lines[1] = HeaderLine
        /\ Cardinality(last.selected) = Len(last.frame) =>
              (file.lines = <<HeaderLine>> /\ LoadData(file) = EmptyFrame)

\* The first of two records was deleted and the second one remains.
C8_Witness ==
    /\ last.op = "delete"
    /\ Len(last.frame) = 2
    /\ last.selected = {0}
    /\ LoadData(file) = <<last.frame[2]>>

\* C10 (store invariant): every stored record has a non-empty area (at least
\* one character), at least one symptom, a severity in 1..10, an age group
\* and a duration of their enumerations, and a symptom date not later than
\* the day of its submission.
C10_StoreInvariant ==
    \A i \in 1..Len(StoredCells) :
        /\ ~StoredCells[i].header
        /\ LET c == StoredCells[i].cells
           IN  /\ Len(c.area) > 0
               /\ Len(SplitSymptoms(c.symptoms)) >= 1
               /\ \A k \in 1..Len(SplitSymptoms(c.symptoms)) :
                     SplitSymptoms(c.symptoms)[k] \in SymptomVocabulary
               /\ c.severity \in SEVERITY_MIN..SEVERITY_MAX
               /\ c.age_group \in AgeGroups
               /\ c.duration \in Durations
               /\ c.date <= DayOf(c.timestamp)

\* A delete rewrite has left a record that was entered for an earlier day
\* than the day it was submitted on.
C10_Witness ==
    /\ last.op = "delete"
    /\ Len(StoredCells) >= 1
    /\ \E i \in 1..Len(StoredCells) :
          StoredCells[i].cells.date < DayOf(StoredCells[i].cells.timestamp)

\* C13 (initialize_data_file is idempotent and non-destructive): called
\* without a file it leaves a file holding the header row only; called with
\* a file it leaves the file as it was; either way load_data returns what it
\* returned before the call, and a further call changes nothing.
C13_InitializeIdempotent ==
    last.op = "initialize_data_file" =>
        /\ ~last.before.exists => file = [exists |-> TRUE, lines |-> <<HeaderLine>>]
        /\ last.before.exists => file = last.before
        /\ LoadData(file) = LoadData(last.before)
        /\ InitializeDataFileOp(file) = file

\* initialize_data_file was called on a store that holds two records.
C13_Witness ==
    /\ last.op = "initialize_data_file"
    /\ last.before.exists
    /\ Len(LoadData(last.before)) = 2
    /\ Len(LoadData(file)) = 2

\* C16 (submittedAt ordering): of two records appended one after the other,
\* the later one has the strictly greater timestamp, so that the records in
\* descending timestamp order are the records in reverse append order.
C16_TimestampsIncrease ==
    accepted.valid =>
        LET frame == LoadData(file)
        IN  \A i, j \in 1..Len(frame) :
                i < j => frame[i].timestamp < frame[j].timestamp

(***************************************************************************)
(* Properties of the sessions.                                             *)
(***************************************************************************)
IsPrefix(a, b) == Len(a) <= Len(b) /\ \A i \in 1..Len(a) : a[i] = b[i]

\* C9 (deletion is administrative only): a step that removes or changes a
\* row load_data returned before it is the delete of the admin panel, run by
\* a session that is authenticated as a user whose role in the credentials
\* is admin; no run of a session with role user, with no role or without
\* authentication reduces or changes the rows.
C9_OnlyAdminDeletes ==
    [][~IsPrefix(LoadData(file), LoadData(file')) =>
          /\ last'.op = "delete"
          /\ sess[last'.sess].authentication_status
          /\ sess[last'.sess].username \in Usernames
          /\ Credentials[sess[last'.sess].username] = "admin"]_vars

\* An admin session has deleted a record while the other session is logged
\* in as an ordinary user.
C9_Witness ==
    /\ last.op = "delete"
    /\ Len(LoadData(file)) < Len(last.frame)
    /\ sess[last.sess].username = "admin1"
    /\ \E s \in Sessions \ {last.sess} :
          sess[s].authentication_status /\ sess[s].username \in {"user1", "guest1"}

(***************************************************************************)
(* Properties of the analytics functions.                                  *)
(***************************************************************************)
AreasOf(frame) == {frame[i].area : i \in 1..Len(frame)}

\* The records of area dated within the last days days of t whose symptoms
\* text contains 'fever', whatever the case.
FeverMatching(frame, t, area, days) ==
    {i \in 1..Len(frame) :
        /\ frame[i].area = area
        /\ frame[i].date >= t - days * SecondsPerDay
        /\ StrContains(StrLower(frame[i].symptoms), Chars("fever"))}

\* The signals of a result that name area.
SignalsFor(result, area) == {k \in 1..Len(result) : result[k].area = area}

\* C2 (outbreak rule): detect_outbreaks, with threshold 10 and window 7,
\* returns exactly one signal for each area with 10 or more in-window
\* records containing 'fever' and none for any other area; the signal
\* carries that count (not the area's record count), 'Fever' and 7.
C2_OutbreakRule ==
    out.op = "detect_outbreaks" =>
        /\ \A area \in AreasOf(df) :
              LET n == Cardinality(FeverMatching(df, now, area, 7))
              IN  /\ Cardinality(SignalsFor(out.ret, area)) = (IF n >= 10 THEN 1 ELSE 0)
                  /\ \A k \in SignalsFor(out.ret, area) :
                        out.ret[k] = [area |-> area, cases |-> n, symptom |-> "Fever",
                                      days |-> 7]
        /\ \A k \in 1..Len(out.ret) : out.ret[k].area \in AreasOf(df)

\* Twelve records of one area in the window, ten of them with Fever: one
\* signal with 10 cases.
C2_Witness ==
    /\ out.op = "detect_outbreaks"
    /\ Len(df) = 12
    /\ \A i \in 1..Len(df) : df[i].area = Chars("Ab") /\ df[i].date >= now - 7 * SecondsPerDay
    /\ Cardinality(FeverMatching(df, now, Chars("Ab"), 7)) = 10
    /\ Len(out.ret) = 1
    /\ out.ret[1].cases = 10

\* frame without its i-th row.
Without(frame, i) == SubSeq(frame, 1, i - 1) \o SubSeq(frame, i + 1, Len(frame))

\* The rows dated before t - 7 days (by a day or more, or by less).
OlderThanWindow(frame, t) ==
    {i \in 1..Len(frame) : frame[i].date < t - 7 * SecondsPerDay}

\* C6 (window exclusivity): a record dated before now - 7 days contributes
\* nothing to the symptom frequency of analyze_trends nor to the fever count
\* of any area in detect_outbreaks: both return what they return for the
\* frame without that record.
C6_WindowExclusivity ==
    /\ out.op = "analyze_trends" =>
          \A i \in OlderThanWindow(df, now) :
              AnalyzeTrends(Without(df, i), now, <<>>).symptom_counts = out.symptom_counts
    /\ out.op = "detect_outbreaks" =>
          \A i \in OlderThanWindow(df, now) :
              DetectOutbreaks(Without(df, i), now) = out.ret

\* An area is flagged with 10 cases although the frame holds an 11th Fever
\* record of it, dated before the window.
C6_Witness ==
    /\ out.op = "detect_outbreaks"
    /\ \E k \in 1..Len(out.ret) :
          /\ out.ret[k].cases = 10
          /\ \E i \in OlderThanWindow(df, now) :
                df[i].area = out.ret[k].area /\ MentionsFever(df[i])

\* C7 (adjustable threshold and window): with the threshold t and the days
\* w set on the alerts page, an area is flagged if and only if its fever
\* count over the last w days is at least t; every banner shown has
\* cases >= t.
C7_ThresholdAdjustable ==
    out.op = "alerts_page" =>
        /\ \A area \in AreasOf(df) :
              (SignalsFor(out.outbreaks, area) # {}) <=>
                  (Cardinality(FeverMatching(df, now, area, out.days_back))
                      >= out.threshold)
        /\ \A k \in 1..Len(out.outbreaks) : out.outbreaks[k].cases >= out.threshold

(***************************************************************************)
(* Properties of load_data on any file.                                    *)
(***************************************************************************)
\* The file is missing or cannot be parsed as the store: it has no line, it
\* has data lines under a first line that is not the header, or it has a
\* header line among its data lines.
MissingOrUnparsable(f) ==
    \/ ~f.exists
    \/ f.lines = <<>>
    \/ Len(f.lines) >= 2 /\ f.lines[1] # HeaderLine
    \/ \E i \in 2..Len(f.lines) : f.lines[i] = HeaderLine

C12_AllOrNothing ==
    last.op \in {"submit_interrupted", "delete_interrupted"} =>
        \/ LoadData(file) = LoadData(last.before)
        \/ LoadData(file) = LoadData(last.target)

(***************************************************************************)
(* Properties of the daily series.                                         *)
(***************************************************************************)
\* The symptoms of each row of frame dated within the 7 days before t, as
\* the labels between the commas; nothing for the other rows.
WindowSplits(frame, t) ==
    [i \in 1..Len(frame) |->
        IF frame[i].date >= t - 7 * SecondsPerDay
        THEN SplitSymptoms(frame[i].symptoms) ELSE <<>>]

\* How often label occurs in splits.
Occurrences(splits, label) ==
    Cardinality({pos \in UNION {{i} \X DOMAIN splits[i] : i \in DOMAIN splits} :
        splits[pos[1]][pos[2]] = label})

\* The rows of frame whose symptoms text contains label, whatever the case.
RowsMentioning(frame, label) ==
    {i \in 1..Len(frame) :
        StrContains(StrLower(frame[i].symptoms), StrLower(label))}

\* C14 (daily series): analyze_trends selects at most 3 symptoms, the
\* highest-count ones of the 7-day symptom frequency, and gives for each of
\* them exactly 30 counts, oldest day first: entry i (0-based) is the number
\* of rows of the whole frame dated today - (29 - i) whose symptoms text
\* contains the symptom as a case-insensitive substring.
C14_DailySeries ==
    out.op = "analyze_trends" =>
        LET top == out.top_symptoms
            chosen == {top[k] : k \in 1..Len(top)}
            today == now \div SecondsPerDay
            splits == WindowSplits(df, now)
            labels == UNION {{splits[i][k] : k \in DOMAIN splits[i]} : i \in DOMAIN splits}
            frequency == [label \in labels |-> Occurrences(splits, label)]
            mentioning == [label \in chosen |-> RowsMentioning(df, label)]
        IN  /\ Len(top) <= 3
            /\ Cardinality(chosen) = Len(top)
            /\ chosen \subseteq labels
            /\ Len(top) < 3 => chosen = labels
            /\ \A a \in chosen, b \in labels \ chosen : frequency[a] >= frequency[b]
            /\ DOMAIN out.daily_trends = chosen
            /\ \A a \in chosen :
                  /\ Len(out.daily_trends[a]) = 30
                  /\ \A i \in 0..29 :
                        out.daily_trends[a][i + 1] =
                            Cardinality({r \in mentioning[a] :
                                df[r].date \div SecondsPerDay = today - (29 - i)})

\* Four symptoms occur in the window and three are selected; the series of
\* one of them counts a row of today in its last entry and a row dated
\* eight days ago, outside the window, in entry 21.
C14_Witness ==
    /\ out.op = "analyze_trends"
    /\ Cardinality(DOMAIN out.symptom_counts) = 4
    /\ Len(out.top_symptoms) = 3
    /\ \E a \in DOMAIN out.daily_trends :
          out.daily_trends[a][30] >= 1 /\ out.daily_trends[a][22] >= 1

(***************************************************************************)
(* Properties of the filtered views.                                       *)
(***************************************************************************)
\* r satisfies every constraint supplied: an area set and an age-group set
\* are supplied when something is selected, a date range when both ends are.
Satisfies(r, areas, date_range, age_groups) ==
    /\ areas # {} => r.area \in areas
    /\ Len(date_range) = 2 =>
          /\ date_range[1] <= r.date \div SecondsPerDay
          /\ r.date \div SecondsPerDay <= date_range[2]
    /\ age_groups # {} => r.age_group \in age_groups

\* The positions of b in a, when b is a subsequence of a: strictly
\* increasing, each row of b being the row of a at its position.
IsSubsequenceAt(b, a, at) ==
    /\ \A j \in 1..Len(b) : a[at[j]] = b[j]
    /\ \A j, k \in 1..Len(b) : j < k => at[j] < at[k]

NoneInWindow(frame, t) ==
    \A i \in 1..Len(frame) : frame[i].date < t - 7 * SecondsPerDay

\* C17 (empty input): for the empty frame, and for a frame none of whose
\* rows is dated in the last 7 days, analyze_trends returns an empty symptom
\* frequency, an empty age distribution and no daily series, and
\* detect_outbreaks returns no signal.
C17_EmptyInput ==
    NoneInWindow(df, now) =>
        /\ out.op = "analyze_trends" =>
              /\ DOMAIN out.symptom_counts = {}
              /\ DOMAIN out.age_distribution = {}
              /\ DOMAIN out.top_symptoms = {}
              /\ DOMAIN out.daily_trends = {}
        /\ out.op = "detect_outbreaks" => out.ret = <<>>

\* analyze_trends has run on a frame of Fever rows all dated before the
\* window.
C17_Witness ==
    /\ out.op = "analyze_trends"
    /\ Len(df) >= 2
    /\ NoneInWindow(df, now)
    /\ \A i \in 1..Len(df) : MentionsFever(df[i])
    /\ DOMAIN out.symptom_counts = {}

C19_DeleteFlowCompletes ==
    (last.op = "confirm" /\ last.selected # {}) =>
        /\ last.rewrite
        /\ LoadData(file) = Remaining(last.frame, last.selected)

(***************************************************************************)
(* Properties of the substring tests.                                      *)
(***************************************************************************)
\* The labels between the commas of a stored symptoms text.
StoredSymptomSet(r) ==
    {SplitSymptoms(r.symptoms)[k] : k \in 1..Len(SplitSymptoms(r.symptoms))}

\* C20 (substring test and membership): for a record whose symptoms are a
\* selection of the vocabulary joined with ', ', the case-insensitive
\* substring test says for every label of the vocabulary what membership in
\* the record's symptom set says; so the fever cases counted are the
\* in-window records that selected Fever.
C20_SubstringIsMembership ==
    /\ \A i \in 1..Len(df), label \in SymptomVocabulary :
          MentionsSymptom(df[i], label) <=> label \in StoredSymptomSet(df[i])
    /\ \A i \in 1..Len(df) :
          MentionsFever(df[i]) <=> Chars("Fever") \in StoredSymptomSet(df[i])
    /\ out.op = "alerts_page" =>
          out.fever_cases =
              Cardinality({i \in 1..Len(df) :
                  /\ df[i].date >= now - out.days_back * SecondsPerDay
                  /\ Chars("Fever") \in StoredSymptomSet(df[i])})

\* The fever cases of a record that selected another symptom first and
\* Fever second have been counted: one.
C20_Witness ==
    /\ out.op = "alerts_page"
    /\ Len(df) = 1
    /\ Len(SplitSymptoms(df[1].symptoms)) = 2
    /\ SplitSymptoms(df[1].symptoms)[2] = Chars("Fever")
    /\ out.fever_cases = 1

=============================================================================
